---- MODULE Spec2Model ----
(***************************************************************************)
(* State-machine model of the LabJack DAQ wrapper classes                  *)
(* (src/labjack_daq.py and src/legacy/*.py): Updater, AsynchUpdater,       *)
(* LabJackDaq, Streamer and Intervaler, and of the stream-out helpers of   *)
(* src/test_stream.py: round_nearest_power_of_base and init_stream.        *)
(*                                                                         *)
(* Python values are records [type, ...]: a list/tuple/ndarray carries     *)
(* "items", a scalar carries "val"; the items of a flat list are the plain *)
(* values of its scalars.  Every operation leaves in "op" what             *)
(* was called, in "calls" the vendor (ljm / time) calls it made, in order, *)
(* and in "result" how it ended: [kind |-> "return" | "raise", exc, val].  *)
(***************************************************************************)
EXTENDS Integers, Sequences, FiniteSets, TLC

VARIABLES
    op,               \* the last operation called, with its arguments
    calls,            \* vendor calls made by the last operation, in order
    result,           \* outcome of the last operation
    regs,             \* device registers written through Updater
    write_names,      \* Updater.write_names
    read_names,       \* Updater.read_names
    tick,             \* host clock (ljm.getHostTick), microseconds
    au,               \* the AsynchUpdater the program holds: "none" or "object"
    last_host_tick,   \* AsynchUpdater._last_host_tick
    prev_host_tick,   \* _last_host_tick as the last transmit/receive found it
    asy_regs,         \* the device's ASYNCH_* registers
    st_module,        \* source file of the Streamer class in use
    out_names,        \* Streamer.out_names
    has_lengths,      \* the Streamer object has the attribute _data_lengths
    data_lengths,     \* Streamer._data_lengths
    loaded,           \* some load_data has returned after writing a buffer
    out_enable,       \* the device's STREAM_OUT{i}_ENABLE registers
    streaming,        \* a stream is running on the device
    daq,              \* the LabJackDaq the program holds: "none" or "object"
    device_type,      \* device type the LabJackDaq was opened with
    daq_attrs,        \* components set on the LabJackDaq object
    handle_open,      \* the vendor library holds LabJackDaq.handle open
    iv_pc,            \* position inside Intervaler.start_interval
    num_iter,         \* Intervaler.num_iter
    curr_iter,        \* start_interval's curr_iter
    operations_inside,  \* the function given: [inc, resp], it returns
                        \* (curr_iter + inc, a response of kind resp)
    operations_outside, \* the function given, or none: [given, resp]
    pending_resp,     \* resp of the last operation called
    interval_responses, \* start_interval's interval_responses
    n_interval_t,     \* len(all_interval_t)
    ts_val            \* test_stream.py: the integer in hand, len(data) of
                      \* init_stream and val of round_nearest_power_of_base

updVars == <<regs, write_names, read_names>>
asyVars == <<tick, au, last_host_tick, prev_host_tick, asy_regs>>
strVars == <<st_module, out_names, has_lengths, data_lengths, loaded,
             out_enable, streaming>>
daqVars == <<daq, device_type, daq_attrs, handle_open>>
ivVars == <<iv_pc, num_iter, curr_iter, operations_inside,
            operations_outside, pending_resp, interval_responses,
            n_interval_t>>
tsVars == <<ts_val>>
comVars == <<op, calls, result>>
vars == <<op, calls, result, updVars, asyVars, strVars, daqVars, ivVars,
          tsVars>>

(***************************************************************************)
(* Bounds                                                                  *)
(***************************************************************************)
MaxDataLen == 3
MaxDataVal == 1
MaxTick == 160000
MaxTxLen == 1
MaxOut == 2
MaxElemLen == 2
MaxStreamTime == 2
MaxIter == 2

(***************************************************************************)
(* Python values and outcomes                                              *)
(***************************************************************************)
PyList(s)    == [type |-> "list", items |-> s]
PyTuple(s)   == [type |-> "tuple", items |-> s]
PyNdarray(s) == [type |-> "ndarray", items |-> s]
PyInt(v)     == [type |-> "int", val |-> v]
PyStr(v)     == [type |-> "str", val |-> v]

isinstance(v, t) == v.type = t

Return(v) == [kind |-> "return", exc |-> "", val |-> v]
Raise(e)  == [kind |-> "raise", exc |-> e, val |-> "None"]
NoResult  == [kind |-> "none", exc |-> "", val |-> "None"]
NoOp      == [name |-> "none"]

SeqsUpTo(S, n) == UNION {[1..k -> S] : k \in 0..n}

\* labjack_daq.convert_input: tuple and list pass through, an ndarray becomes
\* list(val), anything else is wrapped into a one-element list.
convert_input(val) ==
    IF ~isinstance(val, "tuple") /\ ~isinstance(val, "list")
    THEN IF isinstance(val, "ndarray")
         THEN PyList(val.items)
         ELSE PyList(<<val.val>>)
    ELSE val

\* len() of a converted input
PyLen(v) == Len(v.items)

(***************************************************************************)
(* Vendor calls of the ljm library, as far as the wrapper depends on them  *)
(***************************************************************************)
RegNames == {"DAC0_BINARY", "DAC1_BINARY", "DAC0", "DAC1"}

\* ljm.eWriteNames(handle, n, names, values): values[i] goes to names[i]
RECURSIVE eWriteNames(_, _, _, _)
eWriteNames(r, n, names, values) ==
    IF n = 0 THEN r
    ELSE [eWriteNames(r, n - 1, names, values) EXCEPT ![names[n]] = values[n]]

\* ljm.eReadNames(handle, n, names): the values of the n registers, in order
eReadNames(r, n, names) == [i \in 1..n |-> r[names[i]]]

\* {name: data for name, data in zip(names, read_data)}
ReadDict(names, read_data) ==
    [nm \in {names[i] : i \in 1..Len(names)} |->
        LET last == CHOOSE i \in 1..Len(names) :
                        /\ names[i] = nm
                        /\ \A j \in 1..Len(names) : names[j] = nm => j <= i
        IN read_data[last]]

CallWriteNames(names, values) ==
    [fn |-> "eWriteNames", names |-> names, values |-> values]
CallReadNames(names) == [fn |-> "eReadNames", names |-> names]

(***************************************************************************)
(* Updater                                                                 *)
(***************************************************************************)
\* register-name arguments an Updater is constructed with
NameArgs ==
    { PyList(<<"DAC0_BINARY", "DAC1_BINARY">>),
      PyList(<<"DAC0", "DAC1">>),
      PyTuple(<<"DAC1", "DAC0">>),
      PyTuple(<<"DAC0">>),
      PyStr("DAC0") }

\* data arguments of write / update
DataVals == 0..MaxDataVal
DataArgs ==
    {PyList(s) : s \in SeqsUpTo(DataVals, MaxDataLen)}
    \cup {PyTuple(s) : s \in SeqsUpTo(DataVals, MaxDataLen)}
    \cup {PyNdarray(s) : s \in SeqsUpTo(DataVals, 2)}
    \cup {PyInt(v) : v \in DataVals}

\* Updater.__init__: names of a converted argument, as plain strings
NamesOf(arg) == convert_input(arg).items

ValuesOf(iter_datas) == iter_datas.items

\* (faulty variant: data longer than the names passes)
LengthMatchesBad(iter_datas, names) == PyLen(iter_datas) >= Len(names)
\* the length check of write and update: True when the call goes on
LengthMatches(iter_datas, names) == PyLen(iter_datas) = Len(names)

SetOf(s) == {s[i] : i \in 1..Len(s)}
\* (faulty variant: the name lists are compared as lists, not as sets)
same_registers_seq == write_names = read_names
\* Updater.same_registers (property)
same_registers == SetOf(write_names) = SetOf(read_names)

\* no Updater in use
UpdaterIdle ==
    /\ regs = [r \in RegNames |-> 0]
    /\ write_names = <<>>
    /\ read_names = <<>>

UpdaterInit ==
    /\ regs = [r \in RegNames |-> 0]
    /\ \E w \in NameArgs, r \in NameArgs :
        /\ write_names = NamesOf(w)
        /\ read_names = NamesOf(r)

\* Updater.read
UpdaterRead ==
    /\ op' = [name |-> "Updater.read"]
    /\ calls' = <<CallReadNames(read_names)>>
    /\ result' = Return(ReadDict(read_names,
                        eReadNames(regs, Len(read_names), read_names)))
    /\ UNCHANGED updVars
    /\ UNCHANGED <<asyVars, strVars, daqVars, ivVars>>
    /\ UNCHANGED tsVars

\* Updater.write
UpdaterWrite(datas) ==
    LET iter_datas == convert_input(datas) IN
    /\ op' = [name |-> "Updater.write", datas |-> datas]
    /\ IF ~LengthMatches(iter_datas, write_names)
       THEN /\ calls' = <<>>
            /\ result' = Raise("ValueError")
            /\ UNCHANGED updVars
       ELSE /\ calls' = <<CallWriteNames(write_names, ValuesOf(iter_datas))>>
            /\ regs' = eWriteNames(regs, Len(write_names), write_names,
                                   ValuesOf(iter_datas))
            /\ result' = Return("None")
            /\ UNCHANGED <<write_names, read_names>>
    /\ UNCHANGED <<asyVars, strVars, daqVars, ivVars>>
    /\ UNCHANGED tsVars

\* Updater.update
UpdaterUpdate(datas) ==
    LET iter_datas == convert_input(datas) IN
    /\ op' = [name |-> "Updater.update", datas |-> datas]
    /\ IF ~LengthMatches(iter_datas, write_names)
       THEN /\ calls' = <<>>
            /\ result' = Raise("ValueError")
            /\ UNCHANGED updVars
       ELSE LET written == eWriteNames(regs, Len(write_names), write_names,
                                       ValuesOf(iter_datas))
                rnames == IF same_registers THEN write_names ELSE read_names
            IN /\ calls' = <<CallWriteNames(write_names, ValuesOf(iter_datas)),
                             CallReadNames(rnames)>>
               /\ regs' = written
               /\ result' = Return(ReadDict(rnames,
                                eReadNames(written, Len(rnames), rnames)))
               /\ UNCHANGED <<write_names, read_names>>
    /\ UNCHANGED <<asyVars, strVars, daqVars, ivVars>>
    /\ UNCHANGED tsVars

UpdaterWriteAny == \E datas \in DataArgs : UpdaterWrite(datas)
UpdaterUpdateAny == \E datas \in DataArgs : UpdaterUpdate(datas)


(***************************************************************************)
(* AsynchUpdater                                                           *)
(***************************************************************************)
\* AsynchUpdater.min_time_interval = 50e3, in microseconds of host tick
min_time_interval == 50000

AsynchRegs == {"ASYNCH_ENABLE", "ASYNCH_TX_DIONUM", "ASYNCH_RX_DIONUM",
               "ASYNCH_BAUD", "ASYNCH_RX_BUFFER_SIZE_BYTES",
               "ASYNCH_NUM_DATA_BITS", "ASYNCH_NUM_STOP_BITS", "ASYNCH_PARITY"}

\* time that passes on the host between two statements or two calls
Delays == {0, 49999, 50000, 70000}
\* time a vendor register access takes
Latency == {0, 300}
\* time.sleep suspends for at least the time asked, possibly longer
Oversleep == {0, 1000}

ExpNames == {"reflow", "machine", "machining", "other"}

CallWriteName(name, value) ==
    [fn |-> "eWriteName", name |-> name, value |-> value]
CallReadName(name) == [fn |-> "eReadName", name |-> name]

reflow_asynch_conf ==
    [tx |-> 5, rx |-> 4, baud |-> 9600, rx_buffer |-> 6,
     num_data_bits |-> 0, num_stop_bits |-> 1, parity |-> 0]
machine_asynch_conf ==
    [tx |-> 1, rx |-> 0, baud |-> 9600, rx_buffer |-> 6,
     num_data_bits |-> 0, num_stop_bits |-> 1, parity |-> 0]

\* AsynchUpdater.init_asynch: the vendor calls it makes ...
init_asynch_calls(r, c) ==
    <<CallReadName("ASYNCH_ENABLE")>>
    \o (IF r["ASYNCH_ENABLE"] # 0
        THEN <<CallWriteName("ASYNCH_ENABLE", 0)>> ELSE <<>>)
    \o <<CallWriteName("ASYNCH_TX_DIONUM", c.tx),
         CallWriteName("ASYNCH_RX_DIONUM", c.rx),
         CallWriteName("ASYNCH_BAUD", c.baud),
         CallWriteName("ASYNCH_RX_BUFFER_SIZE_BYTES", c.rx_buffer),
         CallWriteName("ASYNCH_NUM_DATA_BITS", c.num_data_bits),
         CallWriteName("ASYNCH_NUM_STOP_BITS", c.num_stop_bits),
         CallWriteName("ASYNCH_PARITY", c.parity),
         CallWriteName("ASYNCH_ENABLE", 1)>>

\* ... and the registers they leave
init_asynch_regs(c) ==
    [n \in AsynchRegs |->
        CASE n = "ASYNCH_ENABLE" -> 1
          [] n = "ASYNCH_TX_DIONUM" -> c.tx
          [] n = "ASYNCH_RX_DIONUM" -> c.rx
          [] n = "ASYNCH_BAUD" -> c.baud
          [] n = "ASYNCH_RX_BUFFER_SIZE_BYTES" -> c.rx_buffer
          [] n = "ASYNCH_NUM_DATA_BITS" -> c.num_data_bits
          [] n = "ASYNCH_NUM_STOP_BITS" -> c.num_stop_bits
          [] n = "ASYNCH_PARITY" -> c.parity]

\* the keyword parameters of init_asynch
ConfKeys == {"tx", "rx", "baud", "rx_buffer", "num_data_bits",
             "num_stop_bits", "parity"}

\* keyword arguments given to init_asynch and with_configuration: a full
\* configuration, a partial one, none at all, and one with a keyword that
\* init_asynch does not have
KwargsArgs ==
    { [tx |-> 2, rx |-> 3, baud |-> 38400, rx_buffer |-> 6,
       num_data_bits |-> 0, num_stop_bits |-> 1, parity |-> 0],
      [tx |-> 2, rx |-> 3],
      [k \in {} |-> 0],
      [tx |-> 2, baudrate |-> 9600] }

\* Python refuses a call of init_asynch with an unknown keyword (TypeError)
kwargs_valid(kwargs) == DOMAIN kwargs \subseteq ConfKeys

\* the parameters of init_asynch as the call binds them: every keyword not
\* given takes its default, 0
bind_conf(kwargs) ==
    [k \in ConfKeys |-> IF k \in DOMAIN kwargs THEN kwargs[k] ELSE 0]

\* the branch AsynchUpdater.experiment takes for exp_name
experiment_branch(exp_name) ==
    IF exp_name = "reflow" THEN "reflow"
    ELSE IF exp_name = "machining" THEN "machine"
    ELSE "raise"

\* (faulty variant: sleeps min_time_interval/1e9 seconds)
check_interval_short(now, last, over) ==
    IF (now - last) < min_time_interval
    THEN now + (min_time_interval \div 1000) + over
    ELSE now
\* AsynchUpdater._check_interval called at host tick now: the host tick at
\* which it returns (time.sleep(min_time_interval/1e6) sleeps
\* min_time_interval microseconds, plus over)
check_interval(now, last, over) ==
    IF (now - last) < min_time_interval
    THEN now + min_time_interval + over
    ELSE now

\* no AsynchUpdater in use
AsynchIdle ==
    /\ tick = 0
    /\ au = "none"
    /\ last_host_tick = 0
    /\ prev_host_tick = 0
    /\ asy_regs = [n \in AsynchRegs |-> 0]

\* AsynchUpdater.__init__
AsynchNew(d) ==
    /\ tick + d <= MaxTick
    /\ op' = [name |-> "AsynchUpdater"]
    /\ calls' = <<>>
    /\ result' = Return("AsynchUpdater")
    /\ tick' = tick + d
    /\ au' = "object"
    /\ last_host_tick' = tick + d
    /\ UNCHANGED <<prev_host_tick, asy_regs>>
    /\ UNCHANGED <<updVars, strVars, daqVars, ivVars>>
    /\ UNCHANGED tsVars

\* AsynchUpdater.experiment (classmethod)
AsynchExperiment(exp_name, d) ==
    LET branch == experiment_branch(exp_name)
        conf == IF branch = "reflow" THEN reflow_asynch_conf
                ELSE machine_asynch_conf
    IN
    /\ tick + d <= MaxTick
    /\ op' = [name |-> "AsynchUpdater.experiment", exp_name |-> exp_name]
    /\ tick' = tick + d
    /\ IF branch = "raise"
       THEN /\ calls' = <<>>
            /\ result' = Raise("ValueError")
            /\ UNCHANGED <<au, last_host_tick, asy_regs>>
       ELSE /\ calls' = init_asynch_calls(asy_regs, conf)
            /\ result' = Return("AsynchUpdater")
            /\ au' = "object"
            /\ last_host_tick' = tick + d
            /\ asy_regs' = init_asynch_regs(conf)
    /\ UNCHANGED prev_host_tick
    /\ UNCHANGED <<updVars, strVars, daqVars, ivVars>>
    /\ UNCHANGED tsVars

\* AsynchUpdater.with_configuration (classmethod): the TypeError of a wrong
\* keyword is raised again as TypeError, the new object is then dropped
AsynchWithConfiguration(kwargs, d) ==
    /\ tick + d <= MaxTick
    /\ op' = [name |-> "AsynchUpdater.with_configuration",
              kwargs |-> kwargs]
    /\ tick' = tick + d
    /\ IF ~kwargs_valid(kwargs)
       THEN /\ calls' = <<>>
            /\ result' = Raise("TypeError")
            /\ UNCHANGED <<au, last_host_tick, asy_regs>>
       ELSE /\ calls' = init_asynch_calls(asy_regs, bind_conf(kwargs))
            /\ result' = Return("AsynchUpdater")
            /\ au' = "object"
            /\ last_host_tick' = tick + d
            /\ asy_regs' = init_asynch_regs(bind_conf(kwargs))
    /\ UNCHANGED prev_host_tick
    /\ UNCHANGED <<updVars, strVars, daqVars, ivVars>>
    /\ UNCHANGED tsVars

\* AsynchUpdater.init_asynch(**kwargs) on the AsynchUpdater in use
AsynchInitAsynch(kwargs) ==
    /\ au = "object"
    /\ op' = [name |-> "AsynchUpdater.init_asynch", kwargs |-> kwargs]
    /\ IF ~kwargs_valid(kwargs)
       THEN /\ calls' = <<>>
            /\ result' = Raise("TypeError")
            /\ UNCHANGED asy_regs
       ELSE /\ calls' = init_asynch_calls(asy_regs, bind_conf(kwargs))
            /\ result' = Return("None")
            /\ asy_regs' = init_asynch_regs(bind_conf(kwargs))
    /\ UNCHANGED <<tick, au, last_host_tick, prev_host_tick>>
    /\ UNCHANGED <<updVars, strVars, daqVars, ivVars>>
    /\ UNCHANGED tsVars

\* AsynchUpdater.transmit(data), data a list of n bytes
AsynchTransmit(n, d, over, l) ==
    LET now == tick + d
        woke == check_interval(now, last_host_tick, over)
    IN
    /\ au = "object"
    /\ woke + 3 * l <= MaxTick
    /\ op' = [name |-> "AsynchUpdater.transmit", len |-> n]
    /\ calls' = <<[fn |-> "eWriteName", name |-> "ASYNCH_NUM_BYTES_TX",
                   value |-> n, at |-> woke],
                  [fn |-> "eWriteNameArray", name |-> "ASYNCH_DATA_TX",
                   value |-> n, at |-> woke + l],
                  [fn |-> "eWriteName", name |-> "ASYNCH_TX_GO",
                   value |-> 1, at |-> woke + 2 * l]>>
    /\ result' = Return("None")
    /\ prev_host_tick' = last_host_tick
    /\ last_host_tick' = woke + 3 * l
    /\ tick' = woke + 3 * l
    /\ UNCHANGED <<au, asy_regs>>
    /\ UNCHANGED <<updVars, strVars, daqVars, ivVars>>
    /\ UNCHANGED tsVars

\* AsynchUpdater.receive(), the device holding n received bytes
AsynchReceive(n, d, over, l) ==
    LET now == tick + d
        woke == check_interval(now, last_host_tick, over)
    IN
    /\ au = "object"
    /\ woke + 2 * l <= MaxTick
    /\ op' = [name |-> "AsynchUpdater.receive", len |-> n]
    /\ calls' = <<[fn |-> "eReadName", name |-> "ASYNCH_NUM_BYTES_RX",
                   value |-> n, at |-> woke],
                  [fn |-> "eReadNameArray", name |-> "ASYNCH_DATA_RX",
                   value |-> n, at |-> woke + l]>>
    /\ result' = Return(n)
    /\ prev_host_tick' = last_host_tick
    /\ last_host_tick' = woke + 2 * l
    /\ tick' = woke + 2 * l
    /\ UNCHANGED <<au, asy_regs>>
    /\ UNCHANGED <<updVars, strVars, daqVars, ivVars>>
    /\ UNCHANGED tsVars

AsynchNewAny == \E d \in Delays : AsynchNew(d)
AsynchExperimentAny ==
    \E exp_name \in ExpNames, d \in Delays : AsynchExperiment(exp_name, d)
AsynchWithConfigurationAny ==
    \E kwargs \in KwargsArgs, d \in Delays :
        AsynchWithConfiguration(kwargs, d)
AsynchInitAsynchAny == \E kwargs \in KwargsArgs : AsynchInitAsynch(kwargs)
AsynchTransmitAny ==
    \E n \in 0..MaxTxLen, d \in Delays, over \in Oversleep, l \in Latency :
        AsynchTransmit(n, d, over, l)
AsynchReceiveAny ==
    \E n \in 0..MaxTxLen, d \in Delays, over \in Oversleep, l \in Latency :
        AsynchReceive(n, d, over, l)

(***************************************************************************)
(* Streamer                                                                *)
(***************************************************************************)
Min(a, b) == IF a < b THEN a ELSE b
MaxOf(s) == CHOOSE m \in SetOf(s) : \A x \in SetOf(s) : x <= m
MinOf(S) == CHOOSE m \in S : \A x \in S : m <= x

\* the two source files that define a Streamer class
StreamerModules == {"labjack_daq", "legacy"}

\* methods the class Streamer defines in each file
StreamerMethods(module) ==
    {"__init__", "__enter__", "__exit__", "init_reset", "out_addresses",
     "stream_nums", "scan_list", "reset_stream", "configure_stream",
     "load_data", "start_stream"}
    \cup (IF module = "legacy"
          THEN {"disable_stream_out", "stop_stream"} ELSE {})

OutNameArgs ==
    { PyList(<<"DAC0", "DAC1">>), PyTuple(<<"DAC0">>), PyStr("DAC1") }

\* Streamer.stream_nums
stream_nums(names) == [i \in 1..Len(names) |-> i - 1]

\* "STREAM_OUT{0}_<suffix>".format(stream_num)
StreamReg(num, suffix) == <<"STREAM_OUT", num, suffix>>

StreamNums == 0..(MaxOut - 1)

\* elements of the datas argument of load_data
Data(k) == [i \in 1..k |-> i]
ElemArgs ==
    {PyList(Data(MaxElemLen)), PyTuple(Data(1)), PyNdarray(<<>>), PyInt(7)}
LoadArgs ==
    {PyTuple(s) : s \in SeqsUpTo(ElemArgs, MaxOut)}
    \cup {PyList(s) : s \in SeqsUpTo(ElemArgs, MaxOut)}
BufferTypes == {"int", "float", "double"}
StreamTimes == 0..MaxStreamTime
ExcTypes == {"None", "KeyboardInterrupt", "ValueError"}

\* the test load_data applies to each element of a tuple: True raises
elem_check_fails(d) ==
    \/ ~isinstance(d, "tuple")
    \/ ~isinstance(d, "list")
    \/ ~isinstance(d, "ndarray")

\* len(d) is defined
has_len(d) == d.type \in {"tuple", "list", "ndarray"}

buffer_name(buffer_type) ==
    IF buffer_type = "int" THEN "_BUFFER_U16"
    ELSE IF buffer_type = "float" THEN "_BUFFER_F32"
    ELSE "invalid"

\* max(self._data_lengths) / stream_time raises (AttributeError, ValueError
\* of max([]), ZeroDivisionError), which the bare except turns into ValueError
scan_rate_raises(stream_time) ==
    \/ ~has_lengths
    \/ data_lengths = <<>>
    \/ stream_time = 0

\* (faulty variant: stops the stream after the sleep)
start_stream_calls_stop(names, maxlen, stream_time) ==
    << [fn |-> "eStreamStart", num_addresses |-> Len(names),
        scan_rate |-> <<maxlen, stream_time>>],
       [fn |-> "time.sleep", ms |-> 1020 * stream_time],
       [fn |-> "eStreamStop"] >>
\* vendor calls of a start_stream that gets past the scan-rate computation:
\* eStreamStart at scan rate maxlen / stream_time, then the blocking sleep of
\* 1.02 * maxlen / actual_scan_rate seconds (here in milliseconds)
start_stream_calls(names, maxlen, stream_time) ==
    << [fn |-> "eStreamStart", num_addresses |-> Len(names),
        scan_rate |-> <<maxlen, stream_time>>],
       [fn |-> "time.sleep", ms |-> 1020 * stream_time] >>

\* Streamer.disable_stream_out: its vendor calls
disable_stream_out_calls(names) ==
    [i \in 1..Len(names) |->
        CallWriteName(StreamReg(stream_nums(names)[i], "_ENABLE"), 0)]

\* errorString of the LJMError ljm.eStreamStop raises, "" when it returns
eStreamStop_error(running, fault) ==
    IF fault THEN "LJME_RECONNECT_FAILED"
    ELSE IF ~running THEN "STREAM_NOT_RUNNING"
    ELSE ""

\* (faulty variant: every LJMError of ljm.eStreamStop is raised again)
stop_stream_raises_any(errorString) == errorString # ""
\* Streamer.stop_stream re-raises every LJMError but STREAM_NOT_RUNNING
stop_stream_raises(errorString) ==
    errorString # "" /\ errorString # "STREAM_NOT_RUNNING"

\* no Streamer in use
StreamerIdle ==
    /\ st_module = "labjack_daq"
    /\ out_names = <<>>
    /\ has_lengths = FALSE
    /\ data_lengths = <<>>
    /\ loaded = FALSE
    /\ out_enable = [i \in StreamNums |-> 0]
    /\ streaming = FALSE

\* Streamer.__init__
StreamerInit ==
    /\ st_module \in StreamerModules
    /\ \E a \in OutNameArgs : out_names = NamesOf(a)
    /\ has_lengths = FALSE
    /\ data_lengths = <<>>
    /\ loaded = FALSE
    /\ out_enable = [i \in StreamNums |-> 0]
    /\ streaming = FALSE

reset_stream_calls ==
    << CallWriteName("STREAM_SETTLING_US", 0),
       CallWriteName("STREAM_RESOLUTION_INDEX", 0),
       CallWriteName("STREAM_CLOCK_SOURCE", 0),
       CallWriteName("STREAM_TRIGGER_INDEX", 0) >>

\* Streamer.reset_stream
StreamerResetStream ==
    /\ op' = [name |-> "Streamer.reset_stream"]
    /\ calls' = reset_stream_calls
    /\ result' = Return("None")
    /\ UNCHANGED <<strVars, updVars, asyVars, daqVars, ivVars>>
    /\ UNCHANGED tsVars

\* the five registers configure_stream writes for one stream-out
configure_stream_calls_one(num, name, loop_num_vals) ==
    << CallWriteName(StreamReg(num, "_BUFFER_ALLOCATE_NUM_BYTES"), 2^14),
       CallWriteName(StreamReg(num, "_TARGET"), name),
       CallWriteName(StreamReg(num, "_ENABLE"), 1),
       CallWriteName(StreamReg(num, "_LOOP_SIZE"), loop_num_vals),
       CallWriteName(StreamReg(num, "_SET_LOOP"), 1) >>

RECURSIVE configure_stream_calls(_, _, _)
configure_stream_calls(names, n, loop_num_vals) ==
    IF n = 0 THEN <<>>
    ELSE configure_stream_calls(names, n - 1, loop_num_vals)
         \o configure_stream_calls_one(stream_nums(names)[n], names[n],
                                       loop_num_vals)

\* Streamer.configure_stream
StreamerConfigure(loop_num_vals) ==
    /\ op' = [name |-> "Streamer.configure_stream"]
    /\ calls' = configure_stream_calls(out_names, Len(out_names), loop_num_vals)
    /\ result' = Return("None")
    /\ out_enable' = [i \in StreamNums |->
                        IF i < Len(out_names) THEN 1 ELSE out_enable[i]]
    /\ UNCHANGED <<st_module, out_names, has_lengths, data_lengths, loaded,
                   streaming>>
    /\ UNCHANGED <<updVars, asyVars, daqVars, ivVars>>
    /\ UNCHANGED tsVars

\* Streamer.load_data
StreamerLoadData(datas, buffer_type) ==
    LET items == datas.items
        k == Min(Len(out_names), Len(items))
        bad == {i \in 1..k : ~has_len(items[i])}
        written == IF bad = {} THEN k ELSE MinOf(bad) - 1
    IN
    /\ op' = [name |-> "Streamer.load_data", datas |-> datas,
              buffer_type |-> buffer_type]
    /\ IF /\ isinstance(datas, "tuple")
          /\ \E i \in 1..Len(items) : elem_check_fails(items[i])
       THEN /\ calls' = <<>>
            /\ result' = Raise("TypeError")
            /\ UNCHANGED <<has_lengths, data_lengths, loaded>>
       ELSE IF buffer_name(buffer_type) = "invalid"
       THEN /\ calls' = <<>>
            /\ result' = Raise("ValueError")
            /\ UNCHANGED <<has_lengths, data_lengths, loaded>>
       ELSE /\ calls' = [i \in 1..written |->
                    [fn |-> "eWriteNameArray",
                     name |-> StreamReg(stream_nums(out_names)[i],
                                        buffer_name(buffer_type)),
                     n |-> Len(items[i].items),
                     data |-> items[i].items]]
            /\ has_lengths' = TRUE
            /\ data_lengths' = [i \in 1..written |-> Len(items[i].items)]
            /\ result' = IF bad = {} THEN Return("None") ELSE Raise("TypeError")
            /\ loaded' = (loaded \/ (bad = {} /\ written > 0))
    /\ UNCHANGED <<st_module, out_names, out_enable, streaming>>
    /\ UNCHANGED <<updVars, asyVars, daqVars, ivVars>>
    /\ UNCHANGED tsVars

\* Streamer.start_stream; vendor_ok: eStreamStart returns (at the scan rate
\* asked for), interrupted: KeyboardInterrupt arrives during the sleep
StreamerStartStream(stream_time, vendor_ok, interrupted) ==
    /\ op' = [name |-> "Streamer.start_stream", stream_time |-> stream_time]
    /\ IF scan_rate_raises(stream_time)
       THEN /\ calls' = <<>>
            /\ result' = Raise("ValueError")
            /\ UNCHANGED streaming
       ELSE LET maxlen == MaxOf(data_lengths)
                cs == start_stream_calls(out_names, maxlen, stream_time)
            IN IF ~vendor_ok
               THEN /\ calls' = SubSeq(cs, 1, 1)
                    /\ result' = Raise("LJMError")
                    /\ UNCHANGED streaming
               ELSE IF maxlen = 0
               THEN /\ calls' = SubSeq(cs, 1, 1)
                    /\ result' = Raise("ZeroDivisionError")
                    /\ streaming' = TRUE
               ELSE /\ calls' = cs
                    /\ result' = IF interrupted
                                 THEN Raise("KeyboardInterrupt")
                                 ELSE Return(cs[2].ms)
                    /\ streaming' = TRUE
    /\ UNCHANGED <<st_module, out_names, has_lengths, data_lengths, loaded,
                   out_enable>>
    /\ UNCHANGED <<updVars, asyVars, daqVars, ivVars>>
    /\ UNCHANGED tsVars

\* Streamer.disable_stream_out
StreamerDisable ==
    /\ op' = [name |-> "Streamer.disable_stream_out"]
    /\ IF "disable_stream_out" \notin StreamerMethods(st_module)
       THEN /\ calls' = <<>>
            /\ result' = Raise("AttributeError")
            /\ UNCHANGED out_enable
       ELSE /\ calls' = disable_stream_out_calls(out_names)
            /\ result' = Return("None")
            /\ out_enable' = [i \in StreamNums |->
                                IF i < Len(out_names) THEN 0 ELSE out_enable[i]]
    /\ UNCHANGED <<st_module, out_names, has_lengths, data_lengths, loaded,
                   streaming>>
    /\ UNCHANGED <<updVars, asyVars, daqVars, ivVars>>
    /\ UNCHANGED tsVars

\* Streamer.stop_stream; fault: the vendor call fails for another reason
StreamerStop(fault) ==
    LET err == eStreamStop_error(streaming, fault) IN
    /\ op' = [name |-> "Streamer.stop_stream"]
    /\ IF "stop_stream" \notin StreamerMethods(st_module)
       THEN /\ calls' = <<>>
            /\ result' = Raise("AttributeError")
            /\ UNCHANGED streaming
       ELSE /\ calls' = <<[fn |-> "eStreamStop", errorString |-> err]>>
            /\ result' = IF stop_stream_raises(err)
                         THEN Raise("LJMError") ELSE Return("None")
            /\ streaming' = IF err = "" THEN FALSE ELSE streaming
    /\ UNCHANGED <<st_module, out_names, has_lengths, data_lengths, loaded,
                   out_enable>>
    /\ UNCHANGED <<updVars, asyVars, daqVars, ivVars>>
    /\ UNCHANGED tsVars

\* Streamer.__exit__(exc_type, exc_value, exc_tb)
StreamerExit(exc_type, fault) ==
    LET err == eStreamStop_error(streaming, fault) IN
    /\ op' = [name |-> "Streamer.__exit__", exc_type |-> exc_type]
    /\ IF "disable_stream_out" \notin StreamerMethods(st_module)
       THEN /\ calls' = <<>>
            /\ result' = Raise("AttributeError")
            /\ UNCHANGED <<out_enable, streaming>>
       ELSE /\ out_enable' = [i \in StreamNums |->
                                IF i < Len(out_names) THEN 0 ELSE out_enable[i]]
            /\ IF "stop_stream" \notin StreamerMethods(st_module)
               THEN /\ calls' = disable_stream_out_calls(out_names)
                    /\ result' = Raise("AttributeError")
                    /\ UNCHANGED streaming
               ELSE /\ calls' = disable_stream_out_calls(out_names)
                            \o <<[fn |-> "eStreamStop", errorString |-> err]>>
                    /\ streaming' = IF err = "" THEN FALSE ELSE streaming
                    /\ result' = IF stop_stream_raises(err)
                                 THEN Raise("LJMError")
                                 ELSE Return(exc_type = "None")
    /\ UNCHANGED <<st_module, out_names, has_lengths, data_lengths, loaded>>
    /\ UNCHANGED <<updVars, asyVars, daqVars, ivVars>>
    /\ UNCHANGED tsVars

StreamerConfigureAny == \E l \in 0..1 : StreamerConfigure(l)
\* every datas argument with buffer type "int"; the other buffer types with
\* the datas of at most one element
StreamerLoadDataAny ==
    \E datas \in LoadArgs, bt \in BufferTypes :
        /\ bt # "int" => Len(datas.items) <= 1
        /\ StreamerLoadData(datas, bt)
StreamerStartStreamAny ==
    \E t \in StreamTimes, ok \in BOOLEAN, int \in BOOLEAN :
        StreamerStartStream(t, ok, int)
StreamerStopAny == \E fault \in BOOLEAN : StreamerStop(fault)
StreamerExitAny ==
    \E e \in ExcTypes, fault \in BOOLEAN : StreamerExit(e, fault)

(***************************************************************************)
(* Intervaler                                                              *)
(***************************************************************************)
\* an operation may be called at most MaxCalls times in one start_interval
MaxCalls == MaxIter + 2

\* what an operation answers as resp when called with curr_iter = it
RespKinds == {"empty_str", "int", "list", "empty_list"}
Resp(kind, it) ==
    IF kind = "empty_str" THEN PyStr("")
    ELSE IF kind = "int" THEN PyInt(it)
    ELSE IF kind = "list" THEN PyList(<<it, it>>)
    ELSE PyList(<<>>)

\* (faulty variant: a zero response is dropped like the empty string)
add_responses_truthy(resp_list, resp) ==
    IF isinstance(resp, "list") THEN resp_list \o resp.items
    ELSE IF ~(isinstance(resp, "str") /\ resp.val = "") /\ resp.val # 0
         THEN Append(resp_list, resp.val)
    ELSE resp_list
\* Intervaler._add_responses
add_responses(resp_list, resp) ==
    IF isinstance(resp, "list") THEN resp_list \o resp.items
    ELSE IF ~(isinstance(resp, "str") /\ resp.val = "")
         THEN Append(resp_list, resp.val)
    ELSE resp_list

\* (faulty variant: operations_outside is never called)
after_wait_skip(outside) == "loop"
\* where the loop body goes after waitForNextInterval: to the call of
\* operations_outside when one was given, else to the loop test
after_wait(outside) == IF outside.given THEN "outside" ELSE "loop"

\* (faulty variant: one pass too many)
loop_cond_le(c, n) == c <= n
\* the condition of start_interval's while loop
loop_cond(c, n) == c < n

Count(s, f) == Cardinality({i \in 1..Len(s) : s[i].fn = f})

\* no Intervaler in use
IntervalerIdle ==
    /\ iv_pc = "idle"
    /\ num_iter = 0
    /\ curr_iter = 0
    /\ operations_inside = [inc |-> 1, resp |-> "empty_str"]
    /\ operations_outside = [given |-> FALSE, resp |-> "empty_str"]
    /\ pending_resp = PyStr("")
    /\ interval_responses = <<>>
    /\ n_interval_t = 0

\* Intervaler.__init__
IntervalerInit ==
    /\ iv_pc = "idle"
    /\ num_iter \in (-1)..MaxIter
    /\ curr_iter = 0
    /\ operations_inside = [inc |-> 1, resp |-> "empty_str"]
    /\ operations_outside = [given |-> FALSE, resp |-> "empty_str"]
    /\ pending_resp = PyStr("")
    /\ interval_responses = <<>>
    /\ n_interval_t = 0

\* Intervaler.start_interval, up to the while loop
StartInterval(inside, outside) ==
    /\ iv_pc \in {"idle", "done"}
    /\ op' = [name |-> "Intervaler.start_interval"]
    /\ calls' = <<[fn |-> "startInterval"]>>
    /\ result' = NoResult
    /\ operations_inside' = inside
    /\ operations_outside' = outside
    /\ curr_iter' = 0
    /\ n_interval_t' = 0
    /\ interval_responses' = <<>>
    /\ pending_resp' = PyStr("")
    /\ iv_pc' = "loop"
    /\ UNCHANGED num_iter
    /\ UNCHANGED <<updVars, asyVars, strVars, daqVars>>
    /\ UNCHANGED tsVars

\* the loop body's call of operations_inside
IntervalInside ==
    /\ iv_pc = "loop"
    /\ loop_cond(curr_iter, num_iter)
    /\ Count(calls, "operations_inside") < MaxCalls
    /\ calls' = Append(calls,
                       [fn |-> "operations_inside",
                        curr_iter |-> curr_iter,
                        returned |-> curr_iter + operations_inside.inc,
                        resp |-> Resp(operations_inside.resp, curr_iter)])
    /\ curr_iter' = curr_iter + operations_inside.inc
    /\ pending_resp' = Resp(operations_inside.resp, curr_iter)
    /\ iv_pc' = "wait"
    /\ UNCHANGED <<op, result, num_iter, operations_inside,
                   operations_outside, interval_responses, n_interval_t>>
    /\ UNCHANGED <<updVars, asyVars, strVars, daqVars>>
    /\ UNCHANGED tsVars

\* ljm.waitForNextInterval and the bookkeeping that follows it
IntervalWait ==
    /\ iv_pc = "wait"
    /\ calls' = Append(calls, [fn |-> "waitForNextInterval"])
    /\ interval_responses' = add_responses(interval_responses, pending_resp)
    /\ n_interval_t' = n_interval_t + 1
    /\ iv_pc' = after_wait(operations_outside)
    /\ UNCHANGED <<op, result, num_iter, curr_iter, operations_inside,
                   operations_outside, pending_resp>>
    /\ UNCHANGED <<updVars, asyVars, strVars, daqVars>>
    /\ UNCHANGED tsVars

\* the call of operations_outside; its returned iteration number is dropped
IntervalOutside ==
    /\ iv_pc = "outside"
    /\ calls' = Append(calls,
                       [fn |-> "operations_outside",
                        curr_iter |-> curr_iter,
                        resp |-> Resp(operations_outside.resp, curr_iter)])
    /\ pending_resp' = Resp(operations_outside.resp, curr_iter)
    /\ interval_responses' =
            add_responses(interval_responses,
                          Resp(operations_outside.resp, curr_iter))
    /\ iv_pc' = "loop"
    /\ UNCHANGED <<op, result, num_iter, curr_iter, operations_inside,
                   operations_outside, n_interval_t>>
    /\ UNCHANGED <<updVars, asyVars, strVars, daqVars>>
    /\ UNCHANGED tsVars

\* after the loop: ljm.cleanInterval and the returned dict
IntervalFinish ==
    /\ iv_pc = "loop"
    /\ ~loop_cond(curr_iter, num_iter)
    /\ calls' = Append(calls, [fn |-> "cleanInterval"])
    /\ result' = Return([interval_time |->
                            IF n_interval_t = 0 THEN "nan" ELSE "mean",
                         total_time |-> "ticks",
                         response |-> interval_responses])
    /\ iv_pc' = "done"
    /\ UNCHANGED <<op, num_iter, curr_iter, operations_inside,
                   operations_outside, pending_resp, interval_responses,
                   n_interval_t>>
    /\ UNCHANGED <<updVars, asyVars, strVars, daqVars>>
    /\ UNCHANGED tsVars

StartIntervalAny ==
    \E inc \in 0..2, ri \in RespKinds, g \in BOOLEAN, ro \in RespKinds :
        /\ (~g => ro = "empty_str")
        /\ StartInterval([inc |-> inc, resp |-> ri],
                         [given |-> g, resp |-> ro])

IntervalStep ==
    \/ IntervalInside
    \/ IntervalWait
    \/ IntervalOutside
    \/ IntervalFinish

(***************************************************************************)
(* LabJackDaq                                                              *)
(***************************************************************************)
DaqComponents == {"update", "stream_out", "asynch", "interval"}

\* the classes an exception is an instance of (Python's built-in hierarchy;
\* ljm.LJMError derives from Exception)
PyBases(e) ==
    IF e = "KeyboardInterrupt" THEN {e, "BaseException"}
    ELSE {e, "Exception", "BaseException"}

\* "except <handler>:" catches an exception of class e
except_matches(handler, e) == handler \in PyBases(e)

\* LabJackDaq.__exit__, first try block:
\*     self.stream_out.disable_stream_out(); self.stream_out.stop_stream()
\* the exception it ends with ("" for none) ...
exit_stream_exc(attrs, module, err) ==
    IF "stream_out" \notin attrs THEN "AttributeError"
    ELSE IF "disable_stream_out" \notin StreamerMethods(module)
         THEN "AttributeError"
    ELSE IF "stop_stream" \notin StreamerMethods(module)
         THEN "AttributeError"
    ELSE IF stop_stream_raises(err) THEN "LJMError"
    ELSE ""

\* ... and the vendor calls it makes
exit_stream_calls(attrs, module, names, err) ==
    IF \/ "stream_out" \notin attrs
       \/ "disable_stream_out" \notin StreamerMethods(module)
    THEN <<>>
    ELSE disable_stream_out_calls(names)
         \o (IF "stop_stream" \notin StreamerMethods(module) THEN <<>>
             ELSE <<[fn |-> "eStreamStop", errorString |-> err]>>)

\* second try block: ljm.cleanInterval(self.interval._interval_handle),
\* every exception swallowed by the bare except
exit_interval_calls(attrs) ==
    IF "interval" \in attrs THEN <<[fn |-> "cleanInterval"]>> ELSE <<>>

DaqIdle ==
    /\ daq = "none"
    /\ device_type = "none"
    /\ daq_attrs = {}
    /\ handle_open = FALSE

\* LabJackDaq.__init__
DaqNew(dt) ==
    /\ op' = [name |-> "LabJackDaq", device_type |-> dt]
    /\ calls' = <<[fn |-> "openS", device_type |-> dt]>>
    /\ result' = Return("LabJackDaq")
    /\ daq' = "object"
    /\ device_type' = dt
    /\ daq_attrs' = {}
    /\ handle_open' = TRUE
    /\ UNCHANGED <<updVars, asyVars, strVars, ivVars>>
    /\ UNCHANGED tsVars

\* what Streamer.init_reset leaves: a fresh Streamer of labjack_daq.py
InitResetStreamer(arg) ==
    /\ st_module' = "labjack_daq"
    /\ out_names' = NamesOf(arg)
    /\ has_lengths' = FALSE
    /\ data_lengths' = <<>>
    /\ loaded' = FALSE
    /\ UNCHANGED <<out_enable, streaming>>

\* LabJackDaq.experiment (classmethod)
DaqExperiment(exp_name) ==
    LET dt == IF exp_name = "reflow" THEN "T4" ELSE "T7"
        branch == experiment_branch(exp_name)
        conf == IF branch = "reflow" THEN reflow_asynch_conf
                ELSE machine_asynch_conf
        open == <<[fn |-> "openS", device_type |-> dt]>>
    IN
    /\ op' = [name |-> "LabJackDaq.experiment", exp_name |-> exp_name]
    /\ IF exp_name \notin {"reflow", "machine"}
       THEN /\ calls' = <<>>
            /\ result' = Raise("ValueError")
            /\ UNCHANGED <<daqVars, updVars, asyVars, strVars>>
       ELSE IF branch = "raise"
       THEN \* add_asynch raises out of experiment, after the device was opened
            /\ calls' = open
            /\ result' = Raise("ValueError")
            /\ UNCHANGED <<daqVars, updVars, asyVars, strVars>>
       ELSE /\ result' = Return("LabJackDaq")
            /\ daq' = "object"
            /\ device_type' = dt
            /\ handle_open' = TRUE
            /\ au' = "object"
            /\ last_host_tick' = tick
            /\ asy_regs' = init_asynch_regs(conf)
            /\ UNCHANGED <<tick, prev_host_tick, regs>>
            /\ IF exp_name = "reflow"
               THEN /\ calls' = open \o init_asynch_calls(asy_regs, conf)
                    /\ daq_attrs' = {"asynch"}
                    /\ UNCHANGED <<write_names, read_names, strVars>>
               ELSE /\ calls' = open \o init_asynch_calls(asy_regs, conf)
                                     \o reset_stream_calls
                    /\ daq_attrs' = {"asynch", "update", "stream_out"}
                    /\ write_names' =
                         NamesOf(PyList(<<"DAC0_BINARY", "DAC1_BINARY">>))
                    /\ read_names' = NamesOf(PyList(<<"DAC0", "DAC1">>))
                    /\ InitResetStreamer(PyList(<<"DAC0", "DAC1">>))
    /\ UNCHANGED ivVars
    /\ UNCHANGED tsVars

\* errorString of the LJMError ljm.close raises, "" when it returns: a handle
\* that is not open gives LJME_DEVICE_NOT_OPEN
close_error(open, fault) ==
    IF fault THEN "LJME_RECONNECT_FAILED"
    ELSE IF ~open THEN "LJME_DEVICE_NOT_OPEN"
    ELSE ""

\* (faulty variant: every LJMError of ljm.close is raised again)
close_raises_any(errorString) == errorString # ""
\* LabJackDaq.close raises again every LJMError but LJME_DEVICE_NOT_OPEN
close_raises(errorString) ==
    errorString # "" /\ errorString # "LJME_DEVICE_NOT_OPEN"

\* LabJackDaq.close
DaqClose(fault) ==
    LET err == close_error(handle_open, fault) IN
    /\ daq = "object"
    /\ op' = [name |-> "LabJackDaq.close"]
    /\ calls' = <<[fn |-> "close", errorString |-> err]>>
    /\ result' = IF close_raises(err)
                 THEN Raise("LJMError") ELSE Return("None")
    /\ handle_open' = IF err = "" THEN FALSE ELSE handle_open
    /\ UNCHANGED <<daq, device_type, daq_attrs>>
    /\ UNCHANGED <<updVars, asyVars, strVars, ivVars>>
    /\ UNCHANGED tsVars

\* LabJackDaq.add_update
DaqAddUpdate(w, r) ==
    /\ daq = "object"
    /\ op' = [name |-> "LabJackDaq.add_update"]
    /\ calls' = <<>>
    /\ result' = Return("None")
    /\ daq_attrs' = daq_attrs \cup {"update"}
    /\ write_names' = NamesOf(w)
    /\ read_names' = NamesOf(r)
    /\ UNCHANGED <<daq, device_type, handle_open, regs, asyVars, strVars,
                   ivVars>>
    /\ UNCHANGED tsVars

\* LabJackDaq.add_stream_out
DaqAddStreamOut(arg) ==
    /\ daq = "object"
    /\ handle_open
    /\ op' = [name |-> "LabJackDaq.add_stream_out"]
    /\ calls' = reset_stream_calls
    /\ result' = Return("None")
    /\ daq_attrs' = daq_attrs \cup {"stream_out"}
    /\ InitResetStreamer(arg)
    /\ UNCHANGED <<daq, device_type, handle_open, updVars, asyVars, ivVars>>
    /\ UNCHANGED tsVars

\* LabJackDaq.add_asynch
DaqAddAsynch(exp_name) ==
    LET branch == experiment_branch(exp_name)
        conf == IF branch = "reflow" THEN reflow_asynch_conf
                ELSE machine_asynch_conf
    IN
    /\ daq = "object"
    /\ handle_open
    /\ op' = [name |-> "LabJackDaq.add_asynch", exp_name |-> exp_name]
    /\ IF branch = "raise"
       THEN /\ calls' = <<>>
            /\ result' = Raise("ValueError")
            /\ UNCHANGED <<daq_attrs, asyVars>>
       ELSE /\ calls' = init_asynch_calls(asy_regs, conf)
            /\ result' = Return("None")
            /\ daq_attrs' = daq_attrs \cup {"asynch"}
            /\ au' = "object"
            /\ last_host_tick' = tick
            /\ asy_regs' = init_asynch_regs(conf)
            /\ UNCHANGED <<tick, prev_host_tick>>
    /\ UNCHANGED <<daq, device_type, handle_open, updVars, strVars, ivVars>>
    /\ UNCHANGED tsVars

\* LabJackDaq.add_interval
DaqAddInterval(n) ==
    /\ daq = "object"
    /\ op' = [name |-> "LabJackDaq.add_interval"]
    /\ calls' = <<>>
    /\ result' = Return("None")
    /\ daq_attrs' = daq_attrs \cup {"interval"}
    /\ num_iter' = n
    /\ UNCHANGED <<daq, device_type, handle_open, updVars, asyVars, strVars>>
    /\ UNCHANGED <<iv_pc, curr_iter, operations_inside, operations_outside,
                   pending_resp, interval_responses, n_interval_t>>
    /\ UNCHANGED tsVars

\* operations on lj.stream_out between entering and leaving the with-block
DaqStreamOut ==
    /\ daq = "object"
    /\ handle_open
    /\ "stream_out" \in daq_attrs
    /\ \/ StreamerConfigure(0)
       \/ StreamerLoadData(PyList(<<PyList(Data(1)), PyList(Data(1))>>), "int")
       \/ \E ok \in BOOLEAN, int \in BOOLEAN : StreamerStartStream(1, ok, int)

\* LabJackDaq.__exit__(exc_type, exc_val, exc_tb)
DaqExit(exc_type, fault) ==
    LET err == eStreamStop_error(streaming, fault)
        exc1 == exit_stream_exc(daq_attrs, st_module, err)
        calls1 == exit_stream_calls(daq_attrs, st_module, out_names, err)
        disabled == calls1 # <<>>
        stopped == disabled /\ calls1[Len(calls1)].fn = "eStreamStop"
                            /\ err = ""
    IN
    /\ daq = "object"
    /\ op' = [name |-> "LabJackDaq.__exit__", exc_type |-> exc_type]
    /\ IF exc_type # "KeyboardInterrupt"
       THEN /\ calls' = <<>>
            /\ result' = Return(exc_type = "None")
            /\ UNCHANGED <<out_enable, streaming>>
       ELSE /\ out_enable' = IF disabled
                             THEN [i \in StreamNums |->
                                    IF i < Len(out_names) THEN 0
                                    ELSE out_enable[i]]
                             ELSE out_enable
            /\ streaming' = IF stopped THEN FALSE ELSE streaming
            /\ IF exc1 # "" /\ ~except_matches("NameError", exc1)
               THEN /\ calls' = calls1
                    /\ result' = Raise(exc1)
               ELSE /\ calls' = calls1 \o exit_interval_calls(daq_attrs)
                    /\ result' = Return(FALSE)
    /\ UNCHANGED <<st_module, out_names, has_lengths, data_lengths, loaded>>
    /\ UNCHANGED <<daqVars, updVars, asyVars, ivVars>>
    /\ UNCHANGED tsVars

DaqNewAny == \E dt \in {"ANY"} : DaqNew(dt)
DaqExperimentAny == \E e \in ExpNames : DaqExperiment(e)
DaqAddUpdateAny ==
    \E w \in {PyStr("DAC0")}, r \in {PyStr("DAC0"), PyTuple(<<"DAC0">>)} :
        DaqAddUpdate(w, r)
DaqAddStreamOutAny ==
    \E a \in {PyList(<<"DAC0", "DAC1">>), PyStr("DAC1")} : DaqAddStreamOut(a)
DaqAddAsynchAny == \E e \in {"reflow", "machine"} : DaqAddAsynch(e)
DaqAddIntervalAny == \E n \in {MaxIter} : DaqAddInterval(n)
DaqExitAny == \E e \in ExcTypes, fault \in BOOLEAN : DaqExit(e, fault)
DaqCloseAny == \E fault \in BOOLEAN : DaqClose(fault)

(***************************************************************************)
(* test_stream.py                                                          *)
(***************************************************************************)
\* the longest data init_stream accepts, 2**14
max_length == 2^14

\* the integers in hand: every data length init_stream accepts, the empty
\* data and the first length it refuses
TestVals == 0..(max_length + 1)

\* (faulty variant: the exponent is truncated, not rounded)
round_power_floor(val, base) ==
    CHOOSE k \in 0..val : base^k <= val /\ val < base^(k + 1)
\* int(round(np.log(val) / np.log(base))) for an integer val >= 1: the
\* integer k nearest to log_base(val), that is k - 1/2 < log_base(val) and
\* log_base(val) < k + 1/2, in integers base^(2k) < base * val^2 and
\* base * val^2 < base^(2k + 2)
round_power(val, base) ==
    CHOOSE k \in 0..val :
        /\ base^(2 * k) < base * val * val
        /\ base * val * val < base^(2 * k + 2)

\* test_stream.round_nearest_power_of_base
round_nearest_power_of_base(val, base, power) ==
    LET rounded_power == round_power(val, base) IN
    IF power THEN rounded_power ELSE base^rounded_power

\* buffer_size of init_stream for data of length n
buffer_size(n) == 2^(round_nearest_power_of_base(n, 2, TRUE) + 1)

\* the vendor calls of init_stream from the BUFFER_SIZE write on; the value
\* written to _TARGET is the address ljm.nameToAddress(out_target) gave,
\* which the register name out_target stands for
init_stream_calls(stream_num, n, out_target, loop_size) ==
    << CallWriteName(StreamReg(stream_num, "_BUFFER_SIZE"), buffer_size(n)),
       [fn |-> "nameToAddress", name |-> out_target],
       CallWriteName(StreamReg(stream_num, "_TARGET"), out_target),
       CallWriteName(StreamReg(stream_num, "_ENABLE"), 1),
       CallWriteName(StreamReg(stream_num, "_LOOP_SIZE"), loop_size),
       CallWriteName(StreamReg(stream_num, "_SET_LOOP"), 1),
       [fn |-> "eWriteNameArray",
        name |-> StreamReg(stream_num, "_BUFFER_U16"), len |-> n] >>

\* the test script is not in use
TestStreamIdle == ts_val = 0

\* the test script with an integer in hand
TestStreamInit == ts_val \in TestVals

\* round_nearest_power_of_base(ts_val, 2, power); np.log(0) is -inf, which
\* int(round(..)) refuses with OverflowError
RoundNearest(power) ==
    /\ op' = [name |-> "round_nearest_power_of_base", val |-> ts_val,
              base |-> 2, power |-> power]
    /\ calls' = <<>>
    /\ result' = IF ts_val = 0 THEN Raise("OverflowError")
                 ELSE Return(round_nearest_power_of_base(ts_val, 2, power))
    /\ UNCHANGED <<updVars, asyVars, strVars, daqVars, ivVars>>
    /\ UNCHANGED tsVars

\* init_stream(handle, stream_num, data, out_target, loop_size) for data of
\* length ts_val; it returns the one-element scan list, the address of
\* STREAM_OUT{stream_num}
InitStream(stream_num, out_target, loop_size) ==
    LET lookup == <<[fn |-> "nameToAddress",
                     name |-> StreamReg(stream_num, "")]>>
    IN
    /\ op' = [name |-> "init_stream", stream_num |-> stream_num,
              len |-> ts_val, out_target |-> out_target,
              loop_size |-> loop_size]
    /\ IF ts_val > max_length
       THEN /\ calls' = lookup
            /\ result' = Raise("ValueError")
            /\ UNCHANGED out_enable
       ELSE IF ts_val = 0
       THEN /\ calls' = lookup
            /\ result' = Raise("OverflowError")
            /\ UNCHANGED out_enable
       ELSE /\ calls' = lookup \o init_stream_calls(stream_num, ts_val,
                                                    out_target, loop_size)
            /\ result' = Return(PyList(<<StreamReg(stream_num, "")>>))
            /\ out_enable' = [out_enable EXCEPT ![stream_num] = 1]
    /\ UNCHANGED <<st_module, out_names, has_lengths, data_lengths, loaded,
                   streaming>>
    /\ UNCHANGED <<updVars, asyVars, daqVars, ivVars>>
    /\ UNCHANGED tsVars

RoundNearestAny == \E power \in BOOLEAN : RoundNearest(power)
InitStreamAny ==
    \E stream_num \in StreamNums : InitStream(stream_num, "DAC0", 0)

(***************************************************************************)
(* Specifications: one per class, the other classes idle                   *)
(***************************************************************************)
InitU ==
    /\ op = NoOp
    /\ calls = <<>>
    /\ result = NoResult
    /\ UpdaterInit
    /\ AsynchIdle
    /\ StreamerIdle
    /\ DaqIdle
    /\ IntervalerIdle
    /\ TestStreamIdle

NextU ==
    \/ UpdaterRead
    \/ UpdaterWriteAny
    \/ UpdaterUpdateAny

SpecUpdater == InitU /\ [][NextU]_vars

InitA ==
    /\ op = NoOp
    /\ calls = <<>>
    /\ result = NoResult
    /\ UpdaterIdle
    /\ AsynchIdle
    /\ StreamerIdle
    /\ DaqIdle
    /\ IntervalerIdle
    /\ TestStreamIdle

NextA ==
    \/ AsynchNewAny
    \/ AsynchExperimentAny
    \/ AsynchWithConfigurationAny
    \/ AsynchInitAsynchAny
    \/ AsynchTransmitAny
    \/ AsynchReceiveAny

SpecAsynch == InitA /\ [][NextA]_vars

InitS ==
    /\ op = NoOp
    /\ calls = <<>>
    /\ result = NoResult
    /\ UpdaterIdle
    /\ AsynchIdle
    /\ StreamerInit
    /\ DaqIdle
    /\ IntervalerIdle
    /\ TestStreamIdle

NextS ==
    \/ StreamerResetStream
    \/ StreamerConfigureAny
    \/ StreamerLoadDataAny
    \/ StreamerStartStreamAny
    \/ StreamerDisable
    \/ StreamerStopAny
    \/ StreamerExitAny

SpecStreamer == InitS /\ [][NextS]_vars

InitD ==
    /\ op = NoOp
    /\ calls = <<>>
    /\ result = NoResult
    /\ UpdaterIdle
    /\ AsynchIdle
    /\ StreamerIdle
    /\ DaqIdle
    /\ IntervalerIdle
    /\ TestStreamIdle

NextD ==
    \/ DaqNewAny
    \/ DaqExperimentAny
    \/ DaqAddUpdateAny
    \/ DaqAddStreamOutAny
    \/ DaqAddAsynchAny
    \/ DaqAddIntervalAny
    \/ DaqStreamOut
    \/ DaqExitAny
    \/ DaqCloseAny

SpecDaq == InitD /\ [][NextD]_vars

InitI ==
    /\ op = NoOp
    /\ calls = <<>>
    /\ result = NoResult
    /\ UpdaterIdle
    /\ AsynchIdle
    /\ StreamerIdle
    /\ DaqIdle
    /\ IntervalerInit
    /\ TestStreamIdle

NextI ==
    \/ StartIntervalAny
    \/ IntervalInside
    \/ IntervalWait
    \/ IntervalOutside
    \/ IntervalFinish

\* start_interval runs in one thread: once called, each of its statements
\* is executed and each call it makes returns
SpecInterval == InitI /\ [][NextI]_vars /\ WF_vars(IntervalStep)

\* the test script next to a Streamer: both write stream-out buffer sizes
InitT ==
    /\ op = NoOp
    /\ calls = <<>>
    /\ result = NoResult
    /\ UpdaterIdle
    /\ AsynchIdle
    /\ StreamerInit
    /\ st_module = "labjack_daq"
    /\ out_names = <<"DAC0">>
    /\ DaqIdle
    /\ IntervalerIdle
    /\ TestStreamInit

NextT ==
    \/ RoundNearestAny
    \/ InitStreamAny
    \/ StreamerConfigureAny

SpecTestStream == InitT /\ [][NextT]_vars

(***************************************************************************)
(* Claims                                                                  *)
(***************************************************************************)
\* C1: Updater.write and Updater.update raise ValueError whenever the number
\* of data values (after convert_input) differs from the number of write
\* register names, and then neither eWriteNames nor eReadNames is called.
C1_LengthMismatchRaises ==
    (op.name \in {"Updater.write", "Updater.update"}
        /\ PyLen(convert_input(op.datas)) # Len(write_names))
    => /\ result.kind = "raise"
       /\ result.exc = "ValueError"
       /\ calls = <<>>

\* a mismatching update on a device whose registers hold written values
C1_Witness ==
    /\ op.name = "Updater.update"
    /\ PyLen(convert_input(op.datas)) < Len(write_names)
    /\ PyLen(convert_input(op.datas)) > 0
    /\ result.exc = "ValueError"
    /\ \E r \in RegNames : regs[r] # 0

\* C2: for every transmit or receive on one AsynchUpdater, the first register
\* access of the call happens at least min_time_interval microseconds of host
\* tick after the host tick recorded by the previous call (or by construction).
C2_MinInterval ==
    op.name \in {"AsynchUpdater.transmit", "AsynchUpdater.receive"}
    => calls[1].at - prev_host_tick >= min_time_interval

\* a call made less than 50 ms after the previous one, which had to sleep
C2_Witness ==
    /\ op.name = "AsynchUpdater.transmit"
    /\ prev_host_tick > 0
    /\ calls[1].at - prev_host_tick < 2 * min_time_interval
    /\ calls[1].at - prev_host_tick >= min_time_interval

\* C3: AsynchUpdater.experiment returns an AsynchUpdater when exp_name is
\* "reflow" or "machine" and raises ValueError for every other exp_name.
C3_ExperimentNames ==
    op.name = "AsynchUpdater.experiment"
    => IF op.exp_name \in {"reflow", "machine"}
       THEN result.kind = "return" /\ asy_regs["ASYNCH_ENABLE"] = 1
       ELSE result.kind = "raise" /\ result.exc = "ValueError"

\* C5: load_data accepts a tuple whose elements are lists, tuples or numpy
\* arrays and writes element i to the buffer register of stream-out i; it
\* raises TypeError only when some element is none of the three.
C5_TupleOfListsAccepted ==
    (/\ op.name = "Streamer.load_data"
     /\ op.datas.type = "tuple"
     /\ op.buffer_type \in {"int", "float"})
    => IF \E i \in 1..Len(op.datas.items) :
              op.datas.items[i].type \notin {"tuple", "list", "ndarray"}
       THEN result.exc = "TypeError"
       ELSE /\ result.kind = "return"
            /\ Len(calls) = Min(Len(out_names), Len(op.datas.items))
            /\ \A i \in 1..Len(calls) :
                /\ calls[i].fn = "eWriteNameArray"
                /\ calls[i].name[2] = i - 1
                /\ calls[i].data = op.datas.items[i].items

\* C6: start_stream raises ValueError exactly when no data has been loaded by
\* an earlier load_data, and then eStreamStart is not called; once a load_data
\* has succeeded every later start_stream reaches eStreamStart.
C6_ValueErrorIffNoData ==
    op.name = "Streamer.start_stream"
    => /\ (result.exc = "ValueError") <=> ~loaded
       /\ result.exc = "ValueError" => calls = <<>>
       /\ loaded => (calls # <<>> /\ calls[1].fn = "eStreamStart")

\* C7: leaving a with-block on a Streamer, however it is left, first writes
\* STREAM_OUT{i}_ENABLE = 0 for every stream-out index i and then calls
\* eStreamStop.
C7_ExitDisablesThenStops ==
    op.name = "Streamer.__exit__"
    => /\ Len(calls) = Len(out_names) + 1
       /\ \A i \in 1..Len(out_names) :
            calls[i] = CallWriteName(StreamReg(i - 1, "_ENABLE"), 0)
       /\ calls[Len(calls)].fn = "eStreamStop"
       /\ \A i \in StreamNums : i < Len(out_names) => out_enable[i] = 0

\* C9: start_stream calls eStreamStart once and only then sleeps for the
\* computed duration and returns; it never calls eStreamStop and never writes
\* a STREAM_OUT{i}_ENABLE register, so the stream-out is as enabled as before
\* and the stream is started when it returns.
C9_StartThenSleep ==
    [][op'.name = "Streamer.start_stream"
       => /\ out_enable' = out_enable
          /\ \A i \in 1..Len(calls') :
                /\ calls'[i].fn \notin {"eStreamStop", "eWriteName"}
                /\ calls'[i].fn = "eStreamStart" => i = 1
          /\ result'.kind = "return"
             => /\ Len(calls') = 2
                /\ calls'[1].fn = "eStreamStart"
                /\ calls'[2].fn = "time.sleep"
                /\ result'.val = calls'[2].ms
                /\ streaming']_vars

\* a start_stream that returned on a configured, loaded Streamer
C9_Witness ==
    /\ op.name = "Streamer.start_stream"
    /\ result.kind = "return"
    /\ Len(out_names) = 2
    /\ \A i \in StreamNums : i < Len(out_names) => out_enable[i] = 1
    /\ streaming

\* C4: LabJackDaq.experiment returns a LabJackDaq for "reflow" (a T4 device
\* with an asynch component) and for "machine" (a T7 device with asynch,
\* update on DAC0_BINARY/DAC1_BINARY read back from DAC0/DAC1, and stream_out
\* on DAC0, DAC1), and raises ValueError only for any other exp_name.
C4_ExperimentReturns ==
    op.name = "LabJackDaq.experiment"
    => IF op.exp_name = "reflow"
       THEN /\ result.kind = "return"
            /\ device_type = "T4"
            /\ "asynch" \in daq_attrs
       ELSE IF op.exp_name = "machine"
       THEN /\ result.kind = "return"
            /\ device_type = "T7"
            /\ {"asynch", "update", "stream_out"} \subseteq daq_attrs
            /\ write_names = <<"DAC0_BINARY", "DAC1_BINARY">>
            /\ read_names = <<"DAC0", "DAC1">>
            /\ out_names = <<"DAC0", "DAC1">>
       ELSE result.kind = "raise" /\ result.exc = "ValueError"

\* C8: when a with-block on a LabJackDaq is left by KeyboardInterrupt,
\* __exit__ disables stream-out and stops the stream if a Streamer was added,
\* cleans the interval if an Intervaler was added, skips without raising
\* whichever was never added, and returns False.
C8_DaqExitOnInterrupt ==
    (op.name = "LabJackDaq.__exit__" /\ op.exc_type = "KeyboardInterrupt")
    => /\ result.kind = "return"
       /\ result.val = FALSE
       /\ "stream_out" \in daq_attrs
          => /\ SubSeq(calls, 1, Len(out_names))
                    = disable_stream_out_calls(out_names)
             /\ Len(calls) > Len(out_names)
             /\ calls[Len(out_names) + 1].fn = "eStreamStop"
       /\ "interval" \in daq_attrs
          => (calls # <<>> /\ calls[Len(calls)].fn = "cleanInterval")
       /\ {"stream_out", "interval"} \cap daq_attrs = {} => calls = <<>>

\* the state start_interval returns in when operations_inside returns
\* curr_iter + 1 on every call: operations_inside was called exactly num_iter
\* times (zero times when num_iter <= 0), waitForNextInterval once per
\* iteration, and the result is a dict with the keys interval_time,
\* total_time and response
C10_Returned ==
    (iv_pc = "done" /\ operations_inside.inc = 1)
    => /\ Count(calls, "operations_inside")
            = (IF num_iter <= 0 THEN 0 ELSE num_iter)
       /\ Count(calls, "waitForNextInterval")
            = Count(calls, "operations_inside")
       /\ result.kind = "return"
       /\ DOMAIN result.val = {"interval_time", "total_time", "response"}

\* C10, with termination: every start_interval whose operations_inside
\* returns curr_iter + 1 reaches its return, and has then made the calls
\* C10_Returned counts.
C10_LoopTerminates ==
    /\ []C10_Returned
    /\ (iv_pc \notin {"idle", "done"} /\ operations_inside.inc = 1)
            ~> (iv_pc = "done")

\* a start_interval of MaxIter iterations that has returned
C10_Witness ==
    /\ iv_pc = "done"
    /\ operations_inside.inc = 1
    /\ num_iter = MaxIter
    /\ Count(calls, "operations_inside") = MaxIter
    /\ result.kind = "return"

\* the positions of the trace of one start_interval
IvCalls == 1..Len(calls)
IsCall(i, f) == i \in IvCalls /\ calls[i].fn = f

\* C11: in every iteration of start_interval, operations_inside has run and
\* returned before waitForNextInterval is called (the wait directly follows
\* it), and operations_outside, when given, is called directly after
\* waitForNextInterval, before the next operations_inside, with the
\* curr_iter that this iteration's operations_inside returned; without
\* operations_outside the next call after the wait is the next iteration's
\* operations_inside or cleanInterval.
C11_IterationOrder ==
    op.name = "Intervaler.start_interval"
    => \A i \in IvCalls :
        /\ IsCall(i, "waitForNextInterval")
            => /\ IsCall(i - 1, "operations_inside")
               /\ i < Len(calls)
                    => IF operations_outside.given
                       THEN IsCall(i + 1, "operations_outside")
                       ELSE \/ IsCall(i + 1, "operations_inside")
                            \/ IsCall(i + 1, "cleanInterval")
        /\ IsCall(i, "operations_inside")
            => (i < Len(calls) => IsCall(i + 1, "waitForNextInterval"))
        /\ IsCall(i, "operations_outside")
            => /\ operations_outside.given
               /\ IsCall(i - 1, "waitForNextInterval")
               /\ IsCall(i - 2, "operations_inside")
               /\ calls[i].curr_iter = calls[i - 2].returned
               /\ i < Len(calls)
                    => \/ IsCall(i + 1, "operations_inside")
                       \/ IsCall(i + 1, "cleanInterval")

\* a start_interval with operations_outside given that has returned after
\* MaxIter iterations, in each of which operations_outside was called with
\* the iteration number operations_inside had just returned
C11_Witness ==
    /\ iv_pc = "done"
    /\ operations_outside.given
    /\ operations_inside.inc = 1
    /\ Count(calls, "operations_inside") = MaxIter
    /\ Count(calls, "operations_outside") = MaxIter
    /\ IsCall(4, "operations_outside")
    /\ calls[4].curr_iter = 1
    /\ calls[2].curr_iter = 0

\* what one response adds to the response list, in the claim's words: a list
\* its elements, the empty string nothing, anything else itself
Contribution(resp) ==
    IF isinstance(resp, "list") THEN resp.items
    ELSE IF isinstance(resp, "str") /\ resp.val = "" THEN <<>>
    ELSE <<resp.val>>

\* the contributions of the operations of a trace, in call order
RECURSIVE ResponsesOf(_)
ResponsesOf(s) ==
    IF s = <<>> THEN <<>>
    ELSE LET c == s[Len(s)] IN
         ResponsesOf(SubSeq(s, 1, Len(s) - 1))
            \o (IF c.fn \in {"operations_inside", "operations_outside"}
                THEN Contribution(c.resp)
                ELSE <<>>)

\* C12: the "response" list start_interval returns holds the responses of
\* all operations in call order (per iteration operations_inside, then
\* operations_outside): a list response contributes its elements in order,
\* the empty string nothing, any other response itself as one element.
C12_ResponseList ==
    iv_pc = "done"
    => /\ result.kind = "return"
       /\ result.val.response = ResponsesOf(calls)

\* a returned start_interval of MaxIter iterations whose operations_inside
\* answers its iteration number and whose operations_outside answers a list:
\* the response list interleaves them
C12_Witness ==
    /\ iv_pc = "done"
    /\ operations_inside.inc = 1
    /\ operations_inside.resp = "int"
    /\ operations_outside.given
    /\ operations_outside.resp = "list"
    /\ num_iter = MaxIter
    /\ Len(result.val.response) = 3 * MaxIter
    /\ SubSeq(result.val.response, 1, 4) = <<0, 1, 1, 1>>

\* C13: update(datas) with a matching data length returns after exactly one
\* write followed by one read: the write goes to write_names with the
\* converted data, the read goes to write_names when the set of write names
\* equals the set of read names and to read_names otherwise; the registers
\* of the model return the last value written, and in the same-registers
\* case the returned dict maps every write name to the value just written
\* to it.
C13_WriteThenRead ==
    (op.name = "Updater.update"
        /\ PyLen(convert_input(op.datas)) = Len(write_names))
    => LET values == ValuesOf(convert_input(op.datas))
           same == SetOf(write_names) = SetOf(read_names)
       IN /\ result.kind = "return"
          /\ Len(calls) = 2
          /\ calls[1] = CallWriteNames(write_names, values)
          /\ calls[2].fn = "eReadNames"
          /\ calls[2].names = (IF same THEN write_names ELSE read_names)
          /\ DOMAIN result.val = SetOf(calls[2].names)
          /\ same => \A i \in 1..Len(write_names) :
                        result.val[write_names[i]] = values[i]

\* an update on an Updater whose read names are its write names in another
\* order: the write names were read back and the dict holds the new values
C13_Witness ==
    /\ op.name = "Updater.update"
    /\ result.kind = "return"
    /\ write_names = <<"DAC0", "DAC1">>
    /\ read_names = <<"DAC1", "DAC0">>
    /\ Len(calls) = 2
    /\ calls[2].names = write_names
    /\ result.val["DAC0"] = 1
    /\ result.val["DAC1"] = 0

\* C14: close() makes one vendor close; when that returns, or raises the
\* LJMError of a handle that is already closed (LJME_DEVICE_NOT_OPEN), close
\* returns without raising, and any other LJMError of the vendor close
\* reaches the caller as an LJMError.
C14_CloseIdempotent ==
    op.name = "LabJackDaq.close"
    => /\ Len(calls) = 1
       /\ calls[1].fn = "close"
       /\ calls[1].errorString \in {"", "LJME_DEVICE_NOT_OPEN"}
            => result = Return("None")
       /\ calls[1].errorString \notin {"", "LJME_DEVICE_NOT_OPEN"}
            => result = Raise("LJMError")

\* a close on a handle an earlier close had closed: the vendor close raised
\* LJME_DEVICE_NOT_OPEN and close returned
C14_Witness ==
    /\ op.name = "LabJackDaq.close"
    /\ daq = "object"
    /\ ~handle_open
    /\ calls = <<[fn |-> "close", errorString |-> "LJME_DEVICE_NOT_OPEN"]>>
    /\ result = Return("None")

\* C15: stop_stream() of the Streamer that defines it (legacy/Streamer.py)
\* makes one vendor eStreamStop; when that returns, or raises the LJMError
\* of a stream that is not running (STREAM_NOT_RUNNING), stop_stream returns
\* without raising, so a second stop_stream in a row is safe; any other
\* LJMError of eStreamStop reaches the caller as an LJMError.
C15_StopStreamSafe ==
    (op.name = "Streamer.stop_stream" /\ st_module = "legacy")
    => /\ Len(calls) = 1
       /\ calls[1].fn = "eStreamStop"
       /\ calls[1].errorString \in {"", "STREAM_NOT_RUNNING"}
            => result = Return("None")
       /\ calls[1].errorString \notin {"", "STREAM_NOT_RUNNING"}
            => result = Raise("LJMError")

\* a stop_stream while no stream runs: eStreamStop raised STREAM_NOT_RUNNING
\* and stop_stream returned
C15_Witness ==
    /\ op.name = "Streamer.stop_stream"
    /\ st_module = "legacy"
    /\ ~streaming
    /\ calls = <<[fn |-> "eStreamStop",
                  errorString |-> "STREAM_NOT_RUNNING"]>>
    /\ result = Return("None")

\* n is a power of two
RECURSIVE IsPow2(_)
IsPow2(n) == n = 1 \/ (n > 1 /\ n % 2 = 0 /\ IsPow2(n \div 2))

\* the smallest power of two, from p on, that is not less than n
RECURSIVE CeilFrom(_, _)
CeilFrom(p, n) == IF p >= n THEN p ELSE CeilFrom(2 * p, n)
CeilPow2(n) == CeilFrom(1, n)

\* the powers of two from p up to m
RECURSIVE Pow2sFrom(_, _)
Pow2sFrom(p, m) == IF p > m THEN {} ELSE {p} \cup Pow2sFrom(2 * p, m)

\* the writes to a stream-out buffer size register in a trace
BufferSizeWrites ==
    {i \in 1..Len(calls) :
        /\ calls[i].fn = "eWriteName"
        /\ \E num \in StreamNums :
              calls[i].name \in {StreamReg(num, "_BUFFER_SIZE"),
                                 StreamReg(num, "_BUFFER_ALLOCATE_NUM_BYTES")}}

\* C16: for data of length n, 1 <= n <= 2**14, init_stream returns after
\* writing to STREAM_OUT{i}_BUFFER_SIZE the smallest power of two that is
\* not less than n.
C16_BufferSizeRoundsUp ==
    (op.name = "init_stream" /\ 1 <= op.len /\ op.len <= 2^14)
    => /\ result.kind = "return"
       /\ BufferSizeWrites # {}
       /\ \A i \in BufferSizeWrites : calls[i].value = CeilPow2(op.len)

\* C17: every value written to a stream-out buffer size register, by
\* configure_stream (BUFFER_ALLOCATE_NUM_BYTES) or by init_stream
\* (BUFFER_SIZE), is a power of two and at most 2**14, and init_stream
\* raises ValueError without any register write when the data is longer
\* than 2**14.
C17_BufferSizesBounded ==
    /\ \A i \in BufferSizeWrites :
          IsPow2(calls[i].value) /\ calls[i].value <= 2^14
    /\ (op.name = "init_stream" /\ op.len > 2^14)
          => /\ result = Raise("ValueError")
             /\ \A i \in 1..Len(calls) :
                   calls[i].fn \notin {"eWriteName", "eWriteNameArray"}

\* the power of two a call of round_nearest_power_of_base stands for: the
\* returned value, or 2 to the returned exponent when power=True
RoundedTo == IF op.power THEN 2^result.val ELSE result.val

\* the powers of two that can be as close to val as any: all up to twice
\* the first one not less than val
Candidates(val) == Pow2sFrom(1, 2 * CeilPow2(val))

Dist(a, b) == IF a >= b THEN a - b ELSE b - a

\* q is strictly closer to val than p on the logarithmic scale, that is
\* max(q, val) / min(q, val) < max(p, val) / min(p, val)
LogCloser(q, p, val) ==
    LET Larger(a, b) == IF a >= b THEN a ELSE b
        Smaller(a, b) == IF a >= b THEN b ELSE a
    IN Larger(q, val) * Smaller(p, val) < Larger(p, val) * Smaller(q, val)

\* C18 as stated: for every integer val >= 1 and base 2 the power returned
\* by round_nearest_power_of_base is a power of 2, and no other power of 2
\* is strictly closer to val.
C18_NearestPower ==
    (op.name = "round_nearest_power_of_base" /\ op.val >= 1)
    => /\ result.kind = "return"
       /\ IsPow2(RoundedTo)
       /\ \A q \in Candidates(op.val) :
             ~(Dist(q, op.val) < Dist(RoundedTo, op.val))

\* C18, amended: for every integer val with 1 <= val <= 2**14 + 1 and base 2
\* the power returned is a power of 2 and no other power of 2 is strictly
\* closer to val on the logarithmic scale (by ratio); with power=True the
\* exponent of that same power is returned.
C18_NearestPowerInLog ==
    (op.name = "round_nearest_power_of_base" /\ op.val >= 1)
    => /\ result.kind = "return"
       /\ IsPow2(RoundedTo)
       /\ \A q \in Candidates(op.val) : ~LogCloser(q, RoundedTo, op.val)
       /\ 2^round_nearest_power_of_base(op.val, 2, TRUE)
            = round_nearest_power_of_base(op.val, 2, FALSE)

\* round_nearest_power_of_base(23, 2) has returned 32, the nearest power of
\* two by ratio, although 16 is nearer by difference
C18_Witness ==
    /\ op.name = "round_nearest_power_of_base"
    /\ op.val = 23
    /\ ~op.power
    /\ result = Return(32)
    /\ LogCloser(32, 16, 23)
    /\ Dist(16, 23) < Dist(32, 23)
====
